---- MODULE Spec2Model ----
(***************************************************************************)
(* Gated execution orchestrator of the constitutional enforcement UI       *)
(* (src/app.py): run_demo_scenario, _process_remaining_tool_calls,         *)
(* execute_tool_with_enforcement, continue_execution_after_approval and    *)
(* _process_response, operating on the Streamlit session state and on the  *)
(* ConstitutionalEnforcer (decision gateway, audit ledger, approval queue).*)
(***************************************************************************)
EXTENDS Integers, Sequences, FiniteSets, TLC

\* ---------------------------------------------------------------- bounds
MaxSteps == 2        \* longest tool_calls list of a scenario
MaxRuns == 2         \* run_demo_scenario calls per session
MaxApprovals == 2    \* approval requests raised per session
MaxResolutions == 3  \* Approve/Reject clicks on the approval queue page
MaxDocuments == 2    \* documents added to the soft ontology manager
MaxLines == 2        \* lines of a document's text
MaxCalls == 6        \* calls made on the soft ontology manager
MaxExtractionCalls == 4 \* calls made on the manager when only extracting
MaxServiceRules == 2 \* rules in one answer of the extraction service

\* ------------------------------------------------------------- constants
\* TOOLS registry: the registered tool names.
TOOLS == {"sharepoint_read", "occ_query", "write_draft", "jira_create"}

\* Tool names a scenario may ask for ("email_send" is not registered).
ToolNames == {"sharepoint_read", "email_send"}

\* What one gate evaluation of the decision gateway can hand back: a member
\* of the Decision enum, "UNKNOWN" for any value outside the enum, "RAISE"
\* for the gateway itself erroring (an exception out of the enforcer call).
Decision ==
  {"ALLOW", "ALLOW_WITH_CONTROLS", "DENY", "REQUIRE_APPROVAL", "ESCALATE"}

\* A gateway whose gates answer with the decisions the demo policies use.
CoreGateway ==
  [pre |-> {"ALLOW", "DENY", "REQUIRE_APPROVAL", "RAISE"},
   post |-> {"ALLOW", "DENY", "RAISE"},
   user |-> {"ALLOW", "DENY", "RAISE"}]

\* A gateway that never errors but whose tool gates may answer with any
\* decision, or with a value outside the enum.
AnyDecisionGateway ==
  [pre |-> Decision \cup {"UNKNOWN"}, post |-> Decision \cup {"UNKNOWN"},
   user |-> {"ALLOW", "DENY", "UNKNOWN"}]

Comments == {"", "too risky"}

\* st.session_state keys that can be absent, None or set.
Absent == [kind |-> "absent"]
None == [kind |-> "none"]

\* Decision.value / str(decision) as stored in execution_results.
DecisionValue(d) ==
  CASE d = "ALLOW" -> "allow"
    [] d = "ALLOW_WITH_CONTROLS" -> "allow_with_controls"
    [] d = "DENY" -> "deny"
    [] d = "REQUIRE_APPROVAL" -> "require_approval"
    [] d = "ESCALATE" -> "escalate"
    [] OTHER -> "unknown"

\* All tool_calls lists of at most MaxSteps steps.
ToolCallLists == UNION {[1..n -> ToolNames] : n \in 0..MaxSteps}

\* scenario_config values handed to run_demo_scenario.
ScenarioConfigs ==
  [user_input : BOOLEAN, tool_calls : ToolCallLists, generate_response : BOOLEAN]

VARIABLES
  execution_in_progress,  \* st.session_state.execution_in_progress
  pending_approval,       \* st.session_state.pending_approval
  execution_results,      \* st.session_state.execution_results
  execution_state,        \* st.session_state.execution_state (continuation)
  remaining_tool_calls,   \* st.session_state.remaining_tool_calls
  pending_response,       \* st.session_state.pending_response
  current_tool_index,     \* st.session_state.current_tool_index (cursor)
  active_gate,            \* st.session_state.active_gate
  enforcer,               \* st.session_state.enforcer: what its gates can answer
  audit_log,              \* enforcer.audit_log (audit ledger)
  pending_approvals,      \* enforcer approval queue
  next_action_id,         \* next fresh uuid of an approval request
  runs,                   \* number of run_demo_scenario calls so far
  scenario,               \* scenario_config of the latest run_demo_scenario
  trace,                  \* calls made since the latest run started, in order
  outcome,                \* how the last operation returned to its caller:
                          \* "ok", "no_execution_state" (the early return of
                          \* continue_execution_after_approval) or the
                          \* exception raised
  review_trace_id,        \* st.session_state["review_trace_id"]
  session_pending_approvals, \* st.session_state.pending_approvals
  trace_manager,          \* st.session_state.trace_manager: trace resolutions
  resolutions,            \* Approve/Reject clicks made on the queue page
  documents,              \* SoftOntologyManager.documents
  extracted_rules,        \* SoftOntologyManager.extracted_rules
  conflict_resolutions,   \* SoftOntologyManager.conflict_resolutions
  now,                    \* datetime.utcnow(), one tick per manager call
  last_call,              \* the latest manager call and what it returned
  evidence                \* the evidence pack get_evidence_pack built last

vars ==
  <<execution_in_progress, pending_approval, execution_results,
    execution_state, remaining_tool_calls, pending_response,
    current_tool_index, active_gate, enforcer, audit_log, pending_approvals,
    next_action_id, runs, scenario, trace, outcome,
    review_trace_id, session_pending_approvals, trace_manager, resolutions,
    documents, extracted_rules, conflict_resolutions, now, last_call,
    evidence>>

\* The soft ontology manager (soft_ontology_manager.py) and its caller.
manager_vars ==
  <<documents, extracted_rules, conflict_resolutions, now, last_call>>

\* The session keys of the approval queue page (pages/approval_queue.py).
page_vars ==
  <<review_trace_id, session_pending_approvals, trace_manager, resolutions>>

\* What the evidence exporter handed to its caller.
export_vars == <<evidence>>

\* The whole session as one record, the value the operations transform.
Session ==
  [execution_in_progress |-> execution_in_progress,
   pending_approval |-> pending_approval,
   execution_results |-> execution_results,
   execution_state |-> execution_state,
   remaining_tool_calls |-> remaining_tool_calls,
   pending_response |-> pending_response,
   current_tool_index |-> current_tool_index,
   active_gate |-> active_gate,
   enforcer |-> enforcer,
   audit_log |-> audit_log,
   pending_approvals |-> pending_approvals,
   next_action_id |-> next_action_id,
   runs |-> runs,
   scenario |-> scenario,
   trace |-> trace,
   outcome |-> outcome]

InstallSession(s) ==
  /\ execution_in_progress' = s.execution_in_progress
  /\ pending_approval' = s.pending_approval
  /\ execution_results' = s.execution_results
  /\ execution_state' = s.execution_state
  /\ remaining_tool_calls' = s.remaining_tool_calls
  /\ pending_response' = s.pending_response
  /\ current_tool_index' = s.current_tool_index
  /\ active_gate' = s.active_gate
  /\ enforcer' = s.enforcer
  /\ audit_log' = s.audit_log
  /\ pending_approvals' = s.pending_approvals
  /\ next_action_id' = s.next_action_id
  /\ runs' = s.runs
  /\ scenario' = s.scenario
  /\ trace' = s.trace
  /\ outcome' = s.outcome

Install(s) ==
  /\ InstallSession(s)
  /\ UNCHANGED page_vars
  /\ UNCHANGED manager_vars
  /\ UNCHANGED export_vars

\* Exceptions that propagate out of a handler to its caller.
Exceptions ==
  {"GateUnavailable", "KeyError", "AttributeError", "UnknownApprovalId"}

\* An exception is propagating out of the current handler.
Raised(s) == s.outcome \in Exceptions

\* --------------------------------------------------- enforcer (gateway)
\* enforcer._log_audit: append one GateEvent to the ledger.
LogAudit(s, gate, action, decision, user) ==
  [s EXCEPT !.audit_log =
     Append(@, [gate |-> gate, action |-> action, decision |-> decision,
                user |-> user])]

\* One call noted in the trace: what was called, the cursor at the call,
\* the decision returned (a gate), the tool run, or the request resolved,
\* and the length of the ledger at the call.
Event(s, ev, x) ==
  [ev |-> ev, i |-> s.current_tool_index, x |-> x, n |-> Len(s.audit_log)]

\* One gate evaluation by the decision gateway (post_user_input,
\* pre_tool_call, post_tool_result, pre_response) returning decision d; a
\* gateway failure raises out of the call.
GateEval(s, ev, d) ==
  LET t == [s EXCEPT !.trace = Append(@, Event(s, ev, d))]
  IN IF d = "RAISE" THEN [t EXCEPT !.outcome = "GateUnavailable"] ELSE t

\* enforcer.request_approval: enqueue an ApprovalRequest (run: the run that
\* was current when the request was made).
RequestApproval(s, action_id, gate, action) ==
  [s EXCEPT !.pending_approvals =
     @ \cup {[action_id |-> action_id, gate |-> gate, action |-> action,
              resolution |-> "PENDING", resolved_by |-> "", comment |-> "",
              run |-> s.runs]}]

\* enforcer.approve / enforcer.deny_approval: resolve the request action_id.
ResolveApproval(s, action_id, resolution, by, comment) ==
  IF \E r \in s.pending_approvals :
       r.action_id = action_id /\ r.resolution = "PENDING"
    THEN [s EXCEPT !.pending_approvals =
            {IF r.action_id = action_id
               THEN [r EXCEPT !.resolution = resolution, !.resolved_by = by,
                              !.comment = comment]
               ELSE r : r \in @}]
    ELSE [s EXCEPT !.outcome = "UnknownApprovalId"]

\* A tool of the TOOLS registry is invoked (noted in the run's trace).
InvokeTool(s, tool_name) ==
  [s EXCEPT !.trace = Append(@, Event(s, "tool", tool_name))]

\* ------------------------------------------------------- orchestrator
NoGate == "None"

\* One entry of st.session_state.execution_results.
Result(step, tool, decision, detail) ==
  [step |-> step, tool |-> tool, decision |-> decision, detail |-> detail]

\* What execute_tool_with_enforcement hands back: (decision, payload) and the
\* session as the call left it.
Ret(s, decision, payload) == [s |-> s, ret |-> decision, payload |-> payload]

\* Outcomes the pre gate may have; approval requests are capped.
PreOutcomes(s) ==
  IF s.next_action_id > MaxApprovals
    THEN s.enforcer.pre \ {"REQUIRE_APPROVAL"}
    ELSE s.enforcer.pre

\* execute_tool_with_enforcement, step 3: after the S-I gate returned p.
ExecuteAfterPost(s, p) ==
  CASE p = "RAISE" -> {Ret(s, "RAISE", "")}
    [] p = "DENY" ->
         {Ret([s EXCEPT !.active_gate = NoGate], "DENY", "denial_reason")}
    [] OTHER -> {Ret([s EXCEPT !.active_gate = NoGate], "ALLOW", "raw_result")}

\* ExecuteAfterPre that hands the tool's result back without putting it
\* through the S-I gate.
ExecuteAfterPre_NoPostGate(s, tool_name, d) ==
  CASE d = "RAISE" -> {Ret(s, "RAISE", "")}
    [] d = "DENY" ->
         {Ret([s EXCEPT !.active_gate = NoGate], "DENY", "denial_reason")}
    [] d = "REQUIRE_APPROVAL" ->
         LET action_id == s.next_action_id
             s1 == RequestApproval([s EXCEPT !.next_action_id = @ + 1],
                                   action_id, "S-O", tool_name)
             s2 == LogAudit(s1, "S-O", tool_name, "REQUIRE_APPROVAL",
                            "analyst_123")
         IN {Ret([s2 EXCEPT
                    !.pending_approval =
                       [kind |-> "set", action_id |-> action_id,
                        action |-> tool_name],
                    !.execution_state =
                       [kind |-> "set", tool_name |-> tool_name,
                        action_id |-> action_id, demo_test |-> FALSE]],
                 "REQUIRE_APPROVAL", "Waiting for approval")}
    [] OTHER ->
         IF tool_name \notin TOOLS
           THEN {Ret([s EXCEPT !.active_gate = NoGate], "DENY",
                     "Tool not registered")}
           ELSE {Ret([InvokeTool(s, tool_name) EXCEPT !.active_gate = NoGate],
                     "ALLOW", "raw_result")}

\* execute_tool_with_enforcement, after the S-O gate returned d.
ExecuteAfterPre(s, tool_name, d) ==
  CASE d = "RAISE" -> {Ret(s, "RAISE", "")}
    [] d = "DENY" ->
         {Ret([s EXCEPT !.active_gate = NoGate], "DENY", "denial_reason")}
    [] d = "REQUIRE_APPROVAL" ->
         LET action_id == s.next_action_id
             s1 == RequestApproval([s EXCEPT !.next_action_id = @ + 1],
                                   action_id, "S-O", tool_name)
             s2 == LogAudit(s1, "S-O", tool_name, "REQUIRE_APPROVAL",
                            "analyst_123")
         IN {Ret([s2 EXCEPT
                    !.pending_approval =
                       [kind |-> "set", action_id |-> action_id,
                        action |-> tool_name],
                    !.execution_state =
                       [kind |-> "set", tool_name |-> tool_name,
                        action_id |-> action_id, demo_test |-> FALSE]],
                 "REQUIRE_APPROVAL", "Waiting for approval")}
    [] OTHER ->
         IF tool_name \notin TOOLS
           THEN {Ret([s EXCEPT !.active_gate = NoGate], "DENY",
                     "Tool not registered")}
           ELSE UNION {ExecuteAfterPost(
                         GateEval([InvokeTool(s, tool_name)
                                     EXCEPT !.active_gate = "S-I"],
                                  "post", p), p)
                       : p \in s.enforcer.post}

\* execute_tool_with_enforcement(tool_name, params, user_id).
ExecuteToolWithEnforcement(s, tool_name) ==
  UNION {ExecuteAfterPre(
           GateEval([s EXCEPT !.active_gate = "S-O"],
                    "pre", d), tool_name, d)
         : d \in PreOutcomes(s)}

\* ProcessResponse that treats a denied response like a denied step: the
\* pending response is kept and the run is not finished.
ProcessResponse_DenyKeepsRunning(s) ==
  IF s.pending_response.kind # "set"
    THEN {[s EXCEPT !.execution_in_progress = FALSE]}
    ELSE UNION {
      LET s2 == GateEval([s EXCEPT !.active_gate = "U-O"], "response", d)
      IN IF d = "RAISE"
           THEN {s2}
           ELSE IF d = "DENY"
                  THEN {[s2 EXCEPT !.active_gate = NoGate]}
                  ELSE {[s2 EXCEPT
                           !.execution_results =
                              Append(@, Result("Response Output", "",
                                               DecisionValue(d), "None")),
                           !.active_gate = NoGate,
                           !.pending_response = Absent,
                           !.execution_in_progress = FALSE]}
      : d \in s.enforcer.user}

\* _process_response().
ProcessResponse(s) ==
  IF s.pending_response.kind # "set"
    THEN {[s EXCEPT !.execution_in_progress = FALSE]}
    ELSE UNION {
      LET s2 == GateEval([s EXCEPT !.active_gate = "U-O"], "response", d)
      IN IF d = "RAISE"
           THEN {s2}
           ELSE {[s2 EXCEPT
                    !.execution_results =
                       Append(@, Result("Response Output", "",
                                        DecisionValue(d),
                                        IF d = "DENY" THEN "denial_reason"
                                                      ELSE "None")),
                    !.active_gate = NoGate,
                    !.pending_response = Absent,
                    !.execution_in_progress = FALSE]}
      : d \in s.enforcer.user}

RECURSIVE ProcessRemainingToolCalls(_)

\* AfterExecute without the early return on REQUIRE_APPROVAL: the step is
\* recorded and the loop goes on as after an allowed step.
AfterExecute_NoPause(r, tool_name, tool_index) ==
  IF r.ret = "RAISE"
    THEN {r.s}
    ELSE LET s1 == [r.s EXCEPT !.execution_results =
                      Append(@, Result("Tool", tool_name,
                                       DecisionValue(r.ret), r.payload))]
         IN IF r.ret = "DENY"
              THEN {[s1 EXCEPT !.execution_in_progress = FALSE]}
              ELSE ProcessRemainingToolCalls(
                     [s1 EXCEPT !.current_tool_index = tool_index + 1])

\* AfterExecute that moves the cursor past a denied step as well.
AfterExecute_AdvanceOnDeny(r, tool_name, tool_index) ==
  IF r.ret \in {"RAISE", "REQUIRE_APPROVAL"}
    THEN {r.s}
    ELSE LET s1 == [r.s EXCEPT !.execution_results =
                      Append(@, Result("Tool", tool_name,
                                       DecisionValue(r.ret), r.payload)),
                               !.current_tool_index = tool_index + 1]
         IN IF r.ret = "DENY"
              THEN {[s1 EXCEPT !.execution_in_progress = FALSE]}
              ELSE ProcessRemainingToolCalls(s1)

\* _process_remaining_tool_calls, after execute_tool_with_enforcement
\* returned r for the step at tool_index.
AfterExecute(r, tool_name, tool_index) ==
  IF r.ret \in {"RAISE", "REQUIRE_APPROVAL"}
    THEN {r.s}
    ELSE LET s1 == [r.s EXCEPT !.execution_results =
                      Append(@, Result("Tool", tool_name,
                                       DecisionValue(r.ret), r.payload))]
         IN IF r.ret = "DENY"
              THEN {[s1 EXCEPT !.execution_in_progress = FALSE]}
              ELSE ProcessRemainingToolCalls(
                     [s1 EXCEPT !.current_tool_index = tool_index + 1])

\* _process_remaining_tool_calls().
ProcessRemainingToolCalls(s) ==
  IF s.current_tool_index < Len(s.remaining_tool_calls)
    THEN LET tool_name == s.remaining_tool_calls[s.current_tool_index + 1]
         IN UNION {AfterExecute(r, tool_name, s.current_tool_index)
                   : r \in ExecuteToolWithEnforcement(s, tool_name)}
    ELSE IF s.pending_response.kind = "set"
           THEN ProcessResponse(s)
           ELSE {[s EXCEPT !.execution_in_progress = FALSE]}

\* run_demo_scenario, steps 2 and 3: store the steps and the response config,
\* then process the tool calls.
StartToolCalls(s, scenario_config) ==
  ProcessRemainingToolCalls(
    [s EXCEPT !.remaining_tool_calls = scenario_config.tool_calls,
              !.current_tool_index = 0,
              !.pending_response =
                 IF scenario_config.generate_response
                   THEN [kind |-> "set", run |-> s.runs]
                   ELSE @])

\* run_demo_scenario(scenario_name, scenario_config).
RunDemoScenario(s, scenario_config) ==
  LET s0 == [s EXCEPT !.execution_in_progress = TRUE,
                      !.execution_results = <<>>,
                      !.active_gate = NoGate,
                      !.pending_approval = None,
                      !.runs = @ + 1,
                      !.scenario = scenario_config,
                      !.trace = <<>>,
                      !.outcome = "ok"]
  IN IF scenario_config.user_input
       THEN UNION {
         LET s1 == GateEval([s0 EXCEPT !.active_gate = "U-I"],
                            "input", d)
         IN CASE d = "RAISE" -> {s1}
              [] d = "DENY" ->
                   {[s1 EXCEPT
                       !.execution_results =
                          Append(@, Result("User Input", "", "DENY",
                                           "denial_reason")),
                       !.execution_in_progress = FALSE,
                       !.active_gate = NoGate]}
              [] OTHER ->
                   StartToolCalls([s1 EXCEPT !.active_gate = NoGate],
                                  scenario_config)
         : d \in s.enforcer.user}
       ELSE StartToolCalls(s0, scenario_config)

\* ContinueAfterPost that leaves the cursor on the resumed step.
ContinueAfterPost_NoAdvance(s, tool_name, p) ==
  IF p = "RAISE"
    THEN {s}
    ELSE LET s1 == IF p = "DENY"
                     THEN [s EXCEPT
                             !.execution_results =
                                Append(@, Result("Tool", tool_name, "DENY",
                                                 "denial_reason")),
                             !.execution_in_progress = FALSE]
                     ELSE [s EXCEPT
                             !.execution_results =
                                Append(@, Result("Tool", tool_name, "ALLOW",
                                                 "raw_result"))]
             s2 == [s1 EXCEPT !.active_gate = NoGate,
                              !.execution_state = Absent]
         IN IF Len(s2.remaining_tool_calls) > 0
              THEN ProcessRemainingToolCalls(s2)
              ELSE IF s2.pending_response.kind = "set"
                     THEN ProcessResponse(s2)
                     ELSE {[s2 EXCEPT !.execution_in_progress = FALSE]}

\* continue_execution_after_approval, approved branch after the S-I gate
\* returned p for the resumed tool.
ContinueAfterPost(s, tool_name, p) ==
  IF p = "RAISE"
    THEN {s}
    ELSE LET s1 == IF p = "DENY"
                     THEN [s EXCEPT
                             !.execution_results =
                                Append(@, Result("Tool", tool_name, "DENY",
                                                 "denial_reason")),
                             !.execution_in_progress = FALSE]
                     ELSE [s EXCEPT
                             !.execution_results =
                                Append(@, Result("Tool", tool_name, "ALLOW",
                                                 "raw_result")),
                             !.current_tool_index = @ + 1]
             s2 == [s1 EXCEPT !.active_gate = NoGate,
                              !.execution_state = Absent]
         IN IF Len(s2.remaining_tool_calls) > 0
              THEN ProcessRemainingToolCalls(s2)
              ELSE IF s2.pending_response.kind = "set"
                     THEN ProcessResponse(s2)
                     ELSE {[s2 EXCEPT !.execution_in_progress = FALSE]}

\* ContinueDenied without its return: the denial is recorded and the
\* remaining tool calls are processed.
ContinueDenied_GoesOn(s, state, comment) ==
  LET deny_reason == IF comment # "" THEN comment ELSE "Denied via UI"
      s1 == ResolveApproval(s, state.action_id, "REJECTED", "ui_user",
                            deny_reason)
      s2 == LogAudit(s1, "S-O", state.tool_name, "DENIED_BY_HUMAN", "ui_user")
  IN IF Raised(s1)
       THEN {s1}
       ELSE ProcessRemainingToolCalls(
              [s2 EXCEPT
                 !.trace = Append(@, Event(s, "denied_by_human",
                                           state.tool_name)),
                 !.execution_results =
                    Append(@, Result("Tool", state.tool_name, "DENY",
                                     "Action denied by user")),
                 !.execution_in_progress = FALSE,
                 !.active_gate = NoGate,
                 !.execution_state = Absent])

\* continue_execution_after_approval, the branch taken when not approved.
ContinueDenied(s, state, comment) ==
  LET deny_reason == IF comment # "" THEN comment ELSE "Denied via UI"
      s1 == ResolveApproval(s, state.action_id, "REJECTED", "ui_user",
                            deny_reason)
      s2 == LogAudit(s1, "S-O", state.tool_name, "DENIED_BY_HUMAN", "ui_user")
  IN IF Raised(s1)
       THEN {s1}
       ELSE {[s2 EXCEPT
                !.trace = Append(@, Event(s, "denied_by_human",
                                          state.tool_name)),
                !.execution_results =
                   Append(@, Result("Tool", state.tool_name, "DENY",
                                    "Action denied by user")),
                !.execution_in_progress = FALSE,
                !.active_gate = NoGate,
                !.execution_state = Absent]}

\* ContinueApproved that invokes the tool before the APPROVED event is
\* appended to the ledger.
ContinueApproved_ToolBeforeLog(s, state) ==
  LET s1 == ResolveApproval(s, state.action_id, "APPROVED", "ui_user", "")
      s2 == [s1 EXCEPT !.trace = Append(@, Event(s, "approved",
                                                 state.tool_name))]
  IN IF Raised(s1)
       THEN {s1}
       ELSE IF state.tool_name \notin TOOLS
              THEN {[s2 EXCEPT !.outcome = "KeyError"]}
              ELSE UNION {
                ContinueAfterPost(
                  GateEval(LogAudit([InvokeTool(s2, state.tool_name)
                                       EXCEPT !.active_gate = "S-I"],
                                    "S-O", state.tool_name, "APPROVED",
                                    "ui_user"), "post", p),
                  state.tool_name, p)
                : p \in s.enforcer.post}

\* ContinueApproved without the enforcer.approve call: the request stays
\* pending in the queue.
ContinueApproved_NoResolve(s, state) ==
  LET s2 == [LogAudit(s, "S-O", state.tool_name, "APPROVED", "ui_user")
               EXCEPT !.trace = Append(@, Event(s, "approved",
                                                state.tool_name))]
  IN IF state.tool_name \notin TOOLS
       THEN {[s2 EXCEPT !.outcome = "KeyError"]}
       ELSE UNION {
         ContinueAfterPost(
           GateEval([InvokeTool(s2, state.tool_name)
                       EXCEPT !.active_gate = "S-I"], "post", p),
           state.tool_name, p)
         : p \in s.enforcer.post}

\* continue_execution_after_approval, the branch taken when approved.  The
\* demo_test continuation is only stored by run_demo_tests, which is not part
\* of the scenario pipeline, so state.get("demo_test") is false here.
ContinueApproved(s, state) ==
  LET s1 == ResolveApproval(s, state.action_id, "APPROVED", "ui_user", "")
      s2 == [LogAudit(s1, "S-O", state.tool_name, "APPROVED", "ui_user")
               EXCEPT !.trace = Append(@, Event(s, "approved",
                                                state.tool_name))]
  IN IF Raised(s1)
       THEN {s1}
       ELSE IF state.tool_name \notin TOOLS
              THEN {[s2 EXCEPT !.outcome = "KeyError"]}
              ELSE UNION {
                ContinueAfterPost(
                  GateEval([InvokeTool(s2, state.tool_name)
                              EXCEPT !.active_gate = "S-I"], "post", p),
                  state.tool_name, p)
                : p \in s.enforcer.post}

\* continue_execution_after_approval(approved, comment).
ContinueExecutionAfterApproval(s, approved, comment) ==
  LET s0 == [s EXCEPT !.outcome = "ok"]
      state == s.execution_state
  IN CASE state = Absent -> {[s0 EXCEPT !.outcome = "no_execution_state"]}
       [] state = None -> {[s0 EXCEPT !.outcome = "AttributeError"]}
       [] OTHER -> IF approved THEN ContinueApproved(s0, state)
                               ELSE ContinueDenied(s0, state, comment)

\* handle_policy_selection(policy_file), the policy file found and loaded:
\* the session gets a newly constructed enforcer, with an empty approval
\* queue, and its audit_log is set to [].
HandlePolicySelection(s) ==
  [s EXCEPT !.audit_log = <<>>, !.pending_approvals = {}, !.outcome = "ok"]

\* initialize_session_state(): every script run sets the missing keys.
InitializeSessionState(s) ==
  [s EXCEPT !.execution_state = IF @ = Absent THEN None ELSE @,
            !.pending_response = IF @ = Absent THEN None ELSE @]

\* ------------------------------------------------ evidence exporter
\* enforcer.get_audit_log(): the ledger entries as the caller sees them;
\* the timestamp of an entry is its place in the ledger's clock.
GetAuditLog(s) ==
  [k \in 1..Len(s.audit_log) |->
     [timestamp |-> k, gate |-> s.audit_log[k].gate,
      action |-> s.audit_log[k].action,
      decision |-> s.audit_log[k].decision, user |-> s.audit_log[k].user]]

\* The time ranges an export may be asked for: none, or a window of the
\* ledger's clock.
TimeRanges(s) ==
  {None} \cup {[kind |-> "set", start |-> a, end |-> b] :
                 a \in 1..Len(s.audit_log), b \in 1..Len(s.audit_log)}

\* The gate_sequence of an evidence pack.
GateSequence(log) ==
  [k \in 1..Len(log) |->
     [gate |-> log[k].gate, timestamp |-> log[k].timestamp,
      decision |-> log[k].decision, action |-> log[k].action]]

\* GetEvidencePack that takes the execution results out of the session as
\* it packs them.
GetEvidencePack_TakesResults(s, time_range) ==
  LET log == GetAuditLog(s)
  IN [s |-> [s EXCEPT !.execution_results = <<>>],
      evidence |-> [kind |-> "set", time_range |-> time_range,
                    session_audit_log |-> log,
                    execution_results |-> s.execution_results,
                    pending_approvals |-> s.pending_approvals,
                    gate_sequence |-> GateSequence(log)]]

\* get_evidence_pack(time_range, include_evidence): the session after the
\* call and the pack returned (the policy file, the caches and the export
\* time, which no operation of the orchestrator reads, are left out).
GetEvidencePack(s, time_range) ==
  LET all == GetAuditLog(s)
      log == IF time_range.kind = "set"
               THEN SelectSeq(all, LAMBDA e : /\ time_range.start <= e.timestamp
                                              /\ e.timestamp <= time_range.end)
               ELSE all
  IN [s |-> s,
      evidence |-> [kind |-> "set", time_range |-> time_range,
                    session_audit_log |-> log,
                    execution_results |-> s.execution_results,
                    pending_approvals |-> s.pending_approvals,
                    gate_sequence |-> GateSequence(log)]]

\* ------------------------------------------- approval queue page
\* pages/approval_queue.py: the two demo requests the page builds on every
\* script run; their resolution is None.
mock_pending_approvals ==
  <<[trace_id |-> "abc-123-def", tool |-> "jira_create",
     user_id |-> "analyst_123", resolution |-> "None"],
    [trace_id |-> "xyz-456-ghi", tool |-> "jira_create",
     user_id |-> "analyst_456", resolution |-> "None"]>>

MockTraceIds == {"abc-123-def", "xyz-456-ghi"}

\* st.session_state.get("simulate_mode", True): the key is set nowhere.
simulate_mode == TRUE

\* The list of pending approvals one script run of the page works on.
PagePendingApprovals ==
  IF simulate_mode /\ session_pending_approvals = <<>>
    THEN mock_pending_approvals
    ELSE session_pending_approvals

\* Positions of the requests of the page's list with trace id trace_id; the
\* page reviews the first one (approval_data).
ApprovalDataAt(trace_id) ==
  {k \in 1..Len(PagePendingApprovals) :
     /\ PagePendingApprovals[k].trace_id = trace_id
     /\ \A j \in 1..(k - 1) : PagePendingApprovals[j].trace_id # trace_id}

\* st.session_state.pending_approvals.remove(approval_data), done when the
\* reviewed request is an element of that list.
RemoveApprovalData(k) ==
  IF session_pending_approvals = <<>>
    THEN session_pending_approvals
    ELSE SubSeq(session_pending_approvals, 1, k - 1)
           \o SubSeq(session_pending_approvals, k + 1,
                     Len(session_pending_approvals))

\* The Approve / Reject button of the review interface: the resolution is
\* written into approval_data, logged to the enforcer's ledger, copied to
\* the trace when the trace manager knows the trace, the request is removed
\* from st.session_state.pending_approvals, and the script reruns.
PageResolve(resolution) ==
  /\ Len(resolutions) < MaxResolutions
  /\ \E k \in ApprovalDataAt(review_trace_id) :
       LET approval_data == PagePendingApprovals[k]
       IN /\ audit_log' =
               LogAudit(Session, "S-O", approval_data.tool, resolution,
                        "current_user").audit_log
          /\ trace_manager' =
               IF trace_manager[approval_data.trace_id] = "absent"
                 THEN trace_manager
                 ELSE [trace_manager EXCEPT
                         ![approval_data.trace_id] = resolution]
          /\ session_pending_approvals' = RemoveApprovalData(k)
          /\ resolutions' =
               Append(resolutions, [trace_id |-> approval_data.trace_id,
                                    resolution |-> resolution])
  /\ review_trace_id' = "None"
  /\ UNCHANGED <<execution_in_progress, pending_approval, execution_results,
                 execution_state, remaining_tool_calls, pending_response,
                 current_tool_index, active_gate, enforcer,
                 pending_approvals, next_action_id, runs, scenario, trace,
                 outcome>>
  /\ UNCHANGED manager_vars
  /\ UNCHANGED export_vars

PageApprove == PageResolve("APPROVED")

PageReject == PageResolve("REJECTED")

\* The Review button of one row of the queue list.
PageReview ==
  /\ ApprovalDataAt(review_trace_id) = {}
  /\ \E k \in 1..Len(PagePendingApprovals) :
       review_trace_id' = PagePendingApprovals[k].trace_id
  /\ UNCHANGED <<execution_in_progress, pending_approval, execution_results,
                 execution_state, remaining_tool_calls, pending_response,
                 current_tool_index, active_gate, enforcer, audit_log,
                 pending_approvals, next_action_id, runs, scenario, trace,
                 outcome, session_pending_approvals, trace_manager,
                 resolutions>>
  /\ UNCHANGED manager_vars
  /\ UNCHANGED export_vars

\* The Cancel and Back to Queue buttons of the review interface.
PageCancel ==
  /\ ApprovalDataAt(review_trace_id) # {}
  /\ review_trace_id' = "None"
  /\ UNCHANGED <<execution_in_progress, pending_approval, execution_results,
                 execution_state, remaining_tool_calls, pending_response,
                 current_tool_index, active_gate, enforcer, audit_log,
                 pending_approvals, next_action_id, runs, scenario, trace,
                 outcome, session_pending_approvals, trace_manager,
                 resolutions>>
  /\ UNCHANGED manager_vars
  /\ UNCHANGED export_vars

\* ------------------------------------------- soft ontology manager
\* A text is a sequence of lines (text.split('\n')), a line a sequence of
\* chunks of characters; the chunk " " is white space.
DemoLine == <<"Data must be ", "retained", " for 5 years per ", "policy">>
ShoutLine == <<" ", "RETENTION", " schedule", " ">>
PlainLine == <<"Lunch is at noon">>
EmptyLine == <<>>

Lines == {DemoLine, ShoutLine, PlainLine, EmptyLine}

\* The texts a document may hold: split on '\n' a text has at least one line.
Texts == UNION {[1..n -> Lines] : n \in 1..MaxLines}

\* The empty string, which Python takes as false.
EmptyText == <<EmptyLine>>

\* str.lower() of a chunk.
Lower(chunk) ==
  CASE chunk = "Data must be " -> "data must be "
    [] chunk = "RETENTION" -> "retention"
    [] chunk = "Lunch is at noon" -> "lunch is at noon"
    [] chunk = "Retain customer data " -> "retain customer data "
    [] OTHER -> chunk

\* word in chunk, for a lower-case chunk.
Within(word, chunk) ==
  <<word, chunk>> \in
    {<<"retain", "retained">>, <<"retention", "retention">>,
     <<"policy", "policy">>, <<"year", " for 5 years per ">>,
     <<"retain", "retain customer data ">>, <<"year", "for 5 years">>}

\* line.lower()
LineLower(line) == [k \in 1..Len(line) |-> Lower(line[k])]

\* word in line_lower
InLine(word, line_lower) ==
  \E k \in 1..Len(line_lower) : Within(word, line_lower[k])

RECURSIVE LStrip(_)
LStrip(line) ==
  IF line # <<>> /\ Head(line) = " " THEN LStrip(Tail(line)) ELSE line

RECURSIVE RStrip(_)
RStrip(line) ==
  IF line # <<>> /\ line[Len(line)] = " "
    THEN RStrip(SubSeq(line, 1, Len(line) - 1))
    ELSE line

\* line.strip()
Strip(line) == RStrip(LStrip(line))

\* The keyword list of _parse_with_keywords.
Keywords == {"retention", "retain", "policy", "compliance", "regulation"}

\* One extracted rule; id n stands for "soft_rule_<n>".  The fields
\* key_requirements, time_periods and context, which nothing reads, are left
\* out.
Rule(id, document_id, text, rule_type, confidence, method, date) ==
  [id |-> id, source_document |-> document_id, text |-> text,
   rule_type |-> rule_type, confidence |-> confidence,
   extraction_method |-> method, extracted_date |-> date]

\* The manager object.
Manager ==
  [documents |-> documents, extracted_rules |-> extracted_rules,
   conflict_resolutions |-> conflict_resolutions]

\* The rule records the extraction service may hand back (rule_data); the
\* first has no rule_text.
RuleData ==
  {[rule_text |-> <<>>, rule_type |-> "other", confidence |-> "0.7"],
   [rule_text |-> <<"Retain customer data ", "for 5 years">>,
    rule_type |-> "data_retention", confidence |-> "0.95"],
   [rule_text |-> DemoLine, rule_type |-> "compliance",
    confidence |-> "0.9"]}

\* What one call of the extraction service comes to: no client (no usable
\* API key), an error (the request or the JSON decoding raising), or an
\* answer with a list of rules.
ServiceAnswers ==
  {[kind |-> "no_client", rules |-> <<>>], [kind |-> "error", rules |-> <<>>]}
    \cup {[kind |-> "rules", rules |-> r] :
            r \in UNION {[1..n -> RuleData] : n \in 0..MaxServiceRules}}

\* The service is not called.
NotCalled == [kind |-> "not_called", rules |-> <<>>]

\* add_document(file_name, file_content, file_type), a text file; the id
\* <<n, date>> stands for "doc_<n>_<timestamp>".
AddDocument(m, file_content, date) ==
  [m EXCEPT !.documents =
     Append(@, [id |-> <<Len(m.documents), date>>, content |-> file_content,
                extracted_text |-> None, status |-> "uploaded"])]

\* remove_document(document_id).
RemoveDocument(m, document_id) ==
  [m EXCEPT !.documents = SelectSeq(@, LAMBDA doc : doc.id # document_id)]

\* Positions of the documents with id document_id; next(...) takes the
\* first.
DocumentAt(m, document_id) ==
  {k \in 1..Len(m.documents) :
     /\ m.documents[k].id = document_id
     /\ \A j \in 1..(k - 1) : m.documents[j].id # document_id}

\* extract_text(document_id) for a text document.
ExtractText(m, document_id) ==
  IF DocumentAt(m, document_id) = {}
    THEN m
    ELSE LET k == CHOOSE k \in DocumentAt(m, document_id) : TRUE
         IN [m EXCEPT !.documents[k].extracted_text =
                         [kind |-> "set", text |-> m.documents[k].content],
                      !.documents[k].status = "extracted"]

RECURSIVE KeywordRules(_, _, _, _, _, _)
\* The loop of _parse_with_keywords over the lines from line i on; rules
\* holds the rules made so far.
KeywordRules(m, text, document_id, date, i, rules) ==
  IF i > Len(text)
    THEN rules
    ELSE LET line == text[i]
             line_lower == LineLower(line)
         IN IF \E keyword \in Keywords : InLine(keyword, line_lower)
              THEN KeywordRules(
                     m, text, document_id, date, i + 1,
                     Append(rules,
                            Rule(Len(m.extracted_rules) + Len(rules),
                                 document_id, Strip(line), "other", "0.5",
                                 "keyword_matching", date)))
              ELSE KeywordRules(m, text, document_id, date, i + 1, rules)

RECURSIVE StoreRules(_, _)
\* for rule in rules: if rule not in self.extracted_rules: append.
StoreRules(extracted, rules) ==
  IF rules = <<>>
    THEN extracted
    ELSE StoreRules(
           IF \E k \in 1..Len(extracted) : extracted[k] = Head(rules)
             THEN extracted
             ELSE Append(extracted, Head(rules)),
           Tail(rules))

\* ParseWithKeywords that scans the first line of the text only.
ParseWithKeywords_FirstLineOnly(m, text, document_id, date) ==
  LET rules == KeywordRules(m, SubSeq(text, 1, 1), document_id, date, 1,
                            <<>>)
  IN [m |-> [m EXCEPT !.extracted_rules = StoreRules(@, rules)],
      rules |-> rules, method |-> "fallback"]

\* _parse_with_keywords(text, document_id): the manager after the call and
\* the rules returned.
ParseWithKeywords(m, text, document_id, date) ==
  LET rules == KeywordRules(m, text, document_id, date, 1, <<>>)
  IN [m |-> [m EXCEPT !.extracted_rules = StoreRules(@, rules)],
      rules |-> rules, method |-> "fallback"]

RECURSIVE TransformRules(_, _, _, _, _)
\* The loop of _parse_with_openai over the rules of the answer: a rule
\* without rule_text is skipped.
TransformRules(m, extracted, document_id, date, rules) ==
  IF extracted = <<>>
    THEN rules
    ELSE LET rule_data == Head(extracted)
         IN TransformRules(
              m, Tail(extracted), document_id, date,
              IF rule_data.rule_text = <<>>
                THEN rules
                ELSE Append(rules,
                            Rule(Len(m.extracted_rules) + Len(rules),
                                 document_id, rule_data.rule_text,
                                 rule_data.rule_type, rule_data.confidence,
                                 "openai_gpt4o", date)))

\* _parse_with_openai(text, document_id, document_name): the rules returned.
ParseWithOpenAI(m, service, document_id, date) ==
  IF service.kind # "rules"
    THEN <<>>
    ELSE TransformRules(m, service.rules, document_id, date, <<>>)

RECURSIVE StoreByText(_, _, _)
\* parse_policy_rules: a rule of the service is appended unless a rule with
\* its text and its source document is in the collection.
StoreByText(extracted, rules, document_id) ==
  IF rules = <<>>
    THEN extracted
    ELSE StoreByText(
           IF \E k \in 1..Len(extracted) :
                /\ extracted[k].text = Head(rules).text
                /\ extracted[k].source_document = document_id
             THEN extracted
             ELSE Append(extracted, Head(rules)),
           Tail(rules), document_id)

\* ParsePolicyRules without the fallback after an enabled primary strategy
\* that produced no rule: the empty result is returned.
ParsePolicyRules_NoFallback(m, document_id, use_openai, service, date) ==
  IF \/ DocumentAt(m, document_id) = {}
     \/ \E k \in DocumentAt(m, document_id) :
          \/ m.documents[k].extracted_text = None
          \/ m.documents[k].extracted_text.text = EmptyText
    THEN [m |-> m, rules |-> <<>>, method |-> "none"]
    ELSE LET k == CHOOSE k \in DocumentAt(m, document_id) : TRUE
             text == m.documents[k].extracted_text.text
             rules == ParseWithOpenAI(m, service, document_id, date)
         IN IF use_openai
              THEN [m |-> [m EXCEPT !.extracted_rules =
                                      StoreByText(@, rules, document_id)],
                    rules |-> rules, method |-> "primary"]
              ELSE ParseWithKeywords(m, text, document_id, date)

\* parse_policy_rules(document_id, use_openai): the manager after the call,
\* the rules returned and the strategy that produced them.
ParsePolicyRules(m, document_id, use_openai, service, date) ==
  IF \/ DocumentAt(m, document_id) = {}
     \/ \E k \in DocumentAt(m, document_id) :
          \/ m.documents[k].extracted_text = None
          \/ m.documents[k].extracted_text.text = EmptyText
    THEN [m |-> m, rules |-> <<>>, method |-> "none"]
    ELSE LET k == CHOOSE k \in DocumentAt(m, document_id) : TRUE
             text == m.documents[k].extracted_text.text
             rules == ParseWithOpenAI(m, service, document_id, date)
         IN IF use_openai /\ rules # <<>>
              THEN [m |-> [m EXCEPT !.extracted_rules =
                                      StoreByText(@, rules, document_id)],
                    rules |-> rules, method |-> "primary"]
              ELSE ParseWithKeywords(m, text, document_id, date)

RECURSIVE DetectLoop(_, _, _, _)
\* The loop of detect_conflicts over the extracted rules.
DetectLoop(extracted, hard_ontology_rule, date, conflicts) ==
  IF extracted = <<>>
    THEN conflicts
    ELSE LET soft_rule == Head(extracted)
             soft_text == LineLower(soft_rule.text)
         IN DetectLoop(
              Tail(extracted), hard_ontology_rule, date,
              IF InLine("year", soft_text) \/ InLine("retention", soft_text)
                THEN Append(conflicts,
                            [id |-> Len(conflicts),
                             hard_ontology_rule |-> hard_ontology_rule,
                             soft_ontology_rule |-> soft_rule,
                             conflict_type |-> "retention_period",
                             detected_date |-> date])
                ELSE conflicts)

\* DetectConflicts that settles each conflict it reports for the baseline.
DetectConflicts_AutoResolved(m, hard_ontology_rule, date) ==
  LET conflicts == DetectLoop(m.extracted_rules, hard_ontology_rule, date,
                              <<>>)
  IN [k \in 1..Len(conflicts) |->
        [id |-> conflicts[k].id,
         hard_ontology_rule |-> conflicts[k].hard_ontology_rule,
         soft_ontology_rule |-> conflicts[k].soft_ontology_rule,
         conflict_type |-> conflicts[k].conflict_type,
         detected_date |-> conflicts[k].detected_date,
         resolution |-> "use_hard_ontology"]]

\* detect_conflicts(hard_ontology_rule); the id n stands for "conflict_<n>".
DetectConflicts(m, hard_ontology_rule, date) ==
  DetectLoop(m.extracted_rules, hard_ontology_rule, date, <<>>)

\* Positions of the resolution records with id conflict_id; next(...) takes
\* the first.
ResolutionAt(m, conflict_id) ==
  {k \in 1..Len(m.conflict_resolutions) :
     /\ m.conflict_resolutions[k].id = conflict_id
     /\ \A j \in 1..(k - 1) : m.conflict_resolutions[j].id # conflict_id}

\* ResolveConflict that appends a new record whether or not the conflict id
\* has one.
ResolveConflict_AlwaysAppends(m, conflict_id, resolution, notes, date) ==
  [m EXCEPT !.conflict_resolutions =
     Append(@, [id |-> conflict_id, resolution |-> resolution,
                resolution_notes |-> notes, resolved_date |-> date])]

\* resolve_conflict(conflict_id, resolution, resolution_notes).
ResolveConflict(m, conflict_id, resolution, resolution_notes, date) ==
  IF ResolutionAt(m, conflict_id) # {}
    THEN LET k == CHOOSE k \in ResolutionAt(m, conflict_id) : TRUE
         IN [m EXCEPT !.conflict_resolutions[k].resolution = resolution,
                      !.conflict_resolutions[k].resolution_notes =
                         resolution_notes,
                      !.conflict_resolutions[k].resolved_date = date]
    ELSE [m EXCEPT !.conflict_resolutions =
            Append(@, [id |-> conflict_id, resolution |-> resolution,
                       resolution_notes |-> resolution_notes,
                       resolved_date |-> date])]

\* c.get("soft_ontology_rule", {}).get("id"); -1 stands for None.
SoftRuleId(c) ==
  IF "soft_ontology_rule" \in DOMAIN c THEN c.soft_ontology_rule.id ELSE -1

\* GetActiveRules that takes a resolution record without a soft rule as a
\* conflict of every rule.
GetActiveRules_AnyRecordCounts(m) ==
  LET has_conflict(rule) ==
        \E k \in 1..Len(m.conflict_resolutions) :
          /\ m.conflict_resolutions[k].resolution # "use_soft_ontology"
          /\ SoftRuleId(m.conflict_resolutions[k]) \in {rule.id, -1}
  IN SelectSeq(m.extracted_rules, LAMBDA rule : ~has_conflict(rule))

\* get_active_rules().
GetActiveRules(m) ==
  LET has_conflict(rule) ==
        \E k \in 1..Len(m.conflict_resolutions) :
          /\ m.conflict_resolutions[k].resolution # "use_soft_ontology"
          /\ SoftRuleId(m.conflict_resolutions[k]) = rule.id
  IN SelectSeq(m.extracted_rules, LAMBDA rule : ~has_conflict(rule))

\* What the caller notes of a call: the operation, its arguments, and what
\* it returned.
Call(op, document_id, use_openai, service, method, returned) ==
  [op |-> op, document_id |-> document_id, use_openai |-> use_openai,
   service |-> service, method |-> method, returned |-> returned]

InstallManager(m) ==
  /\ documents' = m.documents
  /\ extracted_rules' = m.extracted_rules
  /\ conflict_resolutions' = m.conflict_resolutions
  /\ now' = now + 1
  /\ UNCHANGED <<execution_in_progress, pending_approval, execution_results,
                 execution_state, remaining_tool_calls, pending_response,
                 current_tool_index, active_gate, enforcer, audit_log,
                 pending_approvals, next_action_id, runs, scenario, trace,
                 outcome>>
  /\ UNCHANGED page_vars
  /\ UNCHANGED export_vars

\* The Add Document button of the soft ontology page (calls: the number of
\* manager calls a session makes at most).
AddDocumentCall(texts, calls) ==
  /\ now < calls
  /\ Len(documents) < MaxDocuments
  /\ \E file_content \in texts :
       /\ InstallManager(AddDocument(Manager, file_content, now))
       /\ last_call' = Call("add_document", <<Len(documents), now>>, FALSE,
                            NotCalled, "none", <<>>)

\* The Extract Text button of a document.
ExtractTextCall(calls) ==
  /\ now < calls
  /\ \E k \in 1..Len(documents) :
       /\ InstallManager(ExtractText(Manager, documents[k].id))
       /\ last_call' = Call("extract_text", documents[k].id, FALSE,
                            NotCalled, "none", <<>>)

\* The Remove button of a document.
RemoveDocumentCall(calls) ==
  /\ now < calls
  /\ \E k \in 1..Len(documents) :
       /\ InstallManager(RemoveDocument(Manager, documents[k].id))
       /\ last_call' = Call("remove_document", documents[k].id, FALSE,
                            NotCalled, "none", <<>>)

\* parse_policy_rules called for a document, with the primary strategy
\* enabled or not; answers: what the service may answer when it is called.
ParsePolicyRulesCall(answers, calls) ==
  /\ now < calls
  /\ \E k \in 1..Len(documents) : \E use_openai \in BOOLEAN :
       \E service \in (IF use_openai THEN answers ELSE {NotCalled}) :
         LET r == ParsePolicyRules(Manager, documents[k].id, use_openai,
                                   service, now)
         IN /\ InstallManager(r.m)
            /\ last_call' = Call("parse_policy_rules", documents[k].id,
                                 use_openai, service, r.method, r.rules)

\* The baseline rules conflicts are detected against: one on retention, one
\* on another matter.
HardOntologyRules == {"retain_7_years", "no_export_of_pii"}

\* detect_conflicts called for a baseline rule.
DetectConflictsCall ==
  /\ now < MaxCalls
  /\ \E hard_ontology_rule \in HardOntologyRules :
       /\ InstallManager(Manager)
       /\ last_call' = Call("detect_conflicts", <<>>, FALSE, NotCalled,
                            "none",
                            DetectConflicts(Manager, hard_ontology_rule, now))

ConflictIds == 0..1

Resolutions == {"use_hard_ontology", "use_soft_ontology"}

ResolutionNotes == {"", "agreed with legal"}

\* resolve_conflict called for a conflict id.
ResolveConflictCall ==
  /\ now < MaxCalls
  /\ \E conflict_id \in ConflictIds : \E resolution \in Resolutions :
       \E resolution_notes \in ResolutionNotes :
         /\ InstallManager(ResolveConflict(Manager, conflict_id, resolution,
                                           resolution_notes, now))
         /\ last_call' =
              Call("resolve_conflict", <<conflict_id>>, FALSE, NotCalled,
                   IF ResolutionAt(Manager, conflict_id) # {}
                     THEN "overwritten" ELSE "appended",
                   <<>>)

\* A new SoftOntologyManager().
InitManager ==
  /\ documents = <<>>
  /\ extracted_rules = <<>>
  /\ conflict_resolutions = <<>>
  /\ now = 0
  /\ last_call = Call("init", <<>>, FALSE, NotCalled, "none", <<>>)

\* ------------------------------------------------------------ behaviour
InitSession ==
  /\ execution_in_progress = FALSE
  /\ pending_approval = None
  /\ execution_results = <<>>
  /\ execution_state = None
  /\ remaining_tool_calls = <<>>
  /\ pending_response = None
  /\ current_tool_index = 0
  /\ active_gate = NoGate
  /\ audit_log = <<>>
  /\ pending_approvals = {}
  /\ next_action_id = 1
  /\ runs = 0
  /\ scenario = [user_input |-> FALSE, tool_calls |-> <<>>,
                  generate_response |-> FALSE]
  /\ trace = <<>>
  /\ outcome = "ok"
  /\ evidence = None

\* The approval queue page has not been used.
InitPage ==
  /\ review_trace_id = "None"
  /\ session_pending_approvals = <<>>
  /\ trace_manager = [t \in MockTraceIds |-> "absent"]
  /\ resolutions = <<>>

Init == InitSession /\ InitPage /\ InitManager /\ enforcer = CoreGateway

InitGateway ==
  InitSession /\ InitPage /\ InitManager /\ enforcer = AnyDecisionGateway

\* A caller starts a scenario run.
StartRun ==
  /\ runs < MaxRuns
  /\ \E scenario_config \in ScenarioConfigs :
       \E s \in RunDemoScenario(Session, scenario_config) : Install(s)

\* The Approve button of the approval modal; st.rerun() follows a normal
\* return and starts the next script run.
ApproveClick ==
  /\ pending_approval.kind = "set"
  /\ \E s \in ContinueExecutionAfterApproval(
                [Session EXCEPT !.pending_approval = None], TRUE, "") :
       Install(IF Raised(s) THEN s ELSE InitializeSessionState(s))

\* The Deny button of the approval modal.
DenyClick ==
  /\ pending_approval.kind = "set"
  /\ \E comment \in Comments :
       \E s \in ContinueExecutionAfterApproval(
                  [Session EXCEPT !.pending_approval = None], FALSE,
                  IF comment # "" THEN comment ELSE "Denied via UI") :
         Install(IF Raised(s) THEN s ELSE InitializeSessionState(s))

\* A caller invokes the resume operation directly.
ResumeCall ==
  \E approved \in BOOLEAN :
    \E comment \in (IF approved THEN {""} ELSE Comments) :
      \E s \in ContinueExecutionAfterApproval(Session, approved, comment) :
        Install(s)

\* Any other script run (a widget interaction, a page reload).
ScriptRerun == Install(InitializeSessionState(Session))

\* Another policy file is selected in the sidebar; st.rerun() follows.
PolicySelection ==
  Install(InitializeSessionState(HandlePolicySelection(Session)))

Next ==
  \/ StartRun
  \/ ApproveClick
  \/ DenyClick
  \/ ResumeCall
  \/ ScriptRerun
  \/ PolicySelection

Spec == Init /\ [][Next]_vars

\* The first scenario run of a session.
FirstRun ==
  /\ runs = 0
  /\ \E scenario_config \in ScenarioConfigs :
       \E s \in RunDemoScenario(Session, scenario_config) : Install(s)

NextGateway ==
  FirstRun \/ ApproveClick \/ DenyClick \/ ResumeCall \/ ScriptRerun

\* One scenario run per session, against a gateway that may answer with any
\* decision.
SpecGateway == InitGateway /\ [][NextGateway]_vars

\* The evidence pack is built for the Audit Log tab.
ExportEvidencePack ==
  \E time_range \in TimeRanges(Session) :
    LET r == GetEvidencePack(Session, time_range)
    IN /\ InstallSession(r.s)
       /\ evidence' = r.evidence
       /\ UNCHANGED page_vars
       /\ UNCHANGED manager_vars

NextEvidence ==
  FirstRun \/ ApproveClick \/ DenyClick \/ ExportEvidencePack

\* One scenario run of a session whose evidence is exported at any point
\* of the run.
SpecEvidence == Init /\ [][NextEvidence]_vars

\* One scenario run in which every approval shown in the modal is answered
\* in the end: the user clicks Approve or Deny.
SpecResolved ==
  Init /\ [][NextGateway]_vars /\ WF_vars(ApproveClick \/ DenyClick)

\* The approval queue page opened in a fresh session; the trace manager
\* may or may not hold a trace for a demo request.
InitApprovalQueue ==
  /\ InitSession
  /\ enforcer = CoreGateway
  /\ review_trace_id = "None"
  /\ session_pending_approvals = <<>>
  /\ trace_manager \in [MockTraceIds -> {"absent", "None"}]
  /\ resolutions = <<>>
  /\ InitManager

NextApprovalQueue == PageReview \/ PageApprove \/ PageReject \/ PageCancel

SpecApprovalQueue == InitApprovalQueue /\ [][NextApprovalQueue]_vars

\* A session whose soft ontology page has just made its manager; the
\* orchestrator is idle.
InitSoftOntology ==
  InitSession /\ InitPage /\ InitManager /\ enforcer = CoreGateway

NextExtraction ==
  \/ AddDocumentCall(Texts, MaxExtractionCalls)
  \/ ExtractTextCall(MaxExtractionCalls)
  \/ ParsePolicyRulesCall(ServiceAnswers, MaxExtractionCalls)

\* Rule extraction by the soft ontology manager of a session: documents
\* are added, their text is extracted and parsed for rules.
SpecExtraction == InitSoftOntology /\ [][NextExtraction]_vars

\* The texts and the service answers of the collection scenarios: the
\* service finds one rule, or that rule and another.
CollectionTexts == {<<DemoLine>>}

CollectionAnswers ==
  {[kind |-> "no_client", rules |-> <<>>]}
    \cup {[kind |-> "rules", rules |-> r] :
            r \in {<<CHOOSE d \in RuleData : d.rule_type = "data_retention">>,
                    <<CHOOSE d \in RuleData : d.rule_type = "data_retention",
                      CHOOSE d \in RuleData : d.rule_type = "compliance">>}}

NextCollection ==
  \/ AddDocumentCall(CollectionTexts, MaxCalls)
  \/ ExtractTextCall(MaxCalls)
  \/ ParsePolicyRulesCall(CollectionAnswers, MaxCalls)
  \/ RemoveDocumentCall(MaxCalls)

\* The rule collection over the life of the documents: documents are
\* added, extracted, parsed again and again, and removed.
SpecCollection == InitSoftOntology /\ [][NextCollection]_vars

\* The texts and the service answers of the conflict scenarios.
ConflictTexts == {<<DemoLine>>, <<DemoLine, ShoutLine>>}

ConflictAnswers == {[kind |-> "no_client", rules |-> <<>>]}

NextConflicts ==
  \/ AddDocumentCall(ConflictTexts, MaxCalls)
  \/ ExtractTextCall(MaxCalls)
  \/ ParsePolicyRulesCall(ConflictAnswers, MaxCalls)
  \/ DetectConflictsCall
  \/ ResolveConflictCall

\* Conflict detection and resolution on the rules extracted from a
\* document.
SpecConflicts == InitSoftOntology /\ [][NextConflicts]_vars

TypeOK ==
  /\ execution_in_progress \in BOOLEAN
  /\ current_tool_index \in 0..(MaxSteps + MaxApprovals)
  /\ runs \in 0..MaxRuns

\* ------------------------------------------- vocabulary of the properties
LastEvent == trace[Len(trace)]

\* Positions of the trace holding an event of kind ev for step i.
Positions(ev, i) == {k \in 1..Len(trace) : trace[k].ev = ev /\ trace[k].i = i}

\* Some call was made after position k of the trace.
CallsAfter(k) == k < Len(trace)

\* The approval request action_id is in the queue and not resolved yet.
Outstanding(action_id) ==
  \E r \in pending_approvals :
    r.action_id = action_id /\ r.resolution = "PENDING"

\* The run is suspended on the approval request the modal shows, and that
\* request is not resolved yet.
Suspended ==
  /\ pending_approval.kind = "set"
  /\ execution_state.kind = "set"
  /\ pending_approval.action_id = execution_state.action_id
  /\ Outstanding(execution_state.action_id)

LastResult == execution_results[Len(execution_results)]

\* Terminal DENIED: the run stopped on a denied tool step or a denied input.
RunDenied ==
  /\ ~execution_in_progress
  /\ Len(execution_results) > 0
  /\ LastResult.step \in {"Tool", "User Input"}
  /\ LastResult.decision \in {"deny", "DENY"}

\* Terminal COMPLETED: the run stopped and was not denied.
RunCompleted ==
  /\ runs > 0
  /\ ~execution_in_progress
  /\ ~RunDenied

\* ------------------------------------------------------------------- C1
\* C1: while a run is suspended on an approval request, nothing has been
\* done since the pre gate that required the approval: that evaluation, for
\* the step at the cursor, is the last call made, so the cursor has not
\* moved, the step's tool has not been invoked after it and the response
\* gate has not been evaluated.
C1_SuspendedRunIsFrozen ==
  Suspended =>
    /\ Len(trace) > 0
    /\ LastEvent.ev = "pre"
    /\ LastEvent.i = current_tool_index
    /\ LastEvent.x = "REQUIRE_APPROVAL"
    /\ current_tool_index < Len(remaining_tool_calls)
    /\ remaining_tool_calls[current_tool_index + 1] = execution_state.tool_name
    /\ \A k \in 1..Len(trace) : trace[k].ev # "response"

\* A run suspended on its second step, the first one done.
C1_Witness ==
  /\ Suspended
  /\ current_tool_index = 1
  /\ Positions("tool", 0) # {}
  /\ pending_response.kind = "set"

\* ------------------------------------------------------------------- C2
\* C2: once the pre gate or the post gate of a step has returned DENY, the
\* run is terminal DENIED with the cursor on that step, and no call (gate,
\* tool, response) is made after the denying evaluation.
C2_DenyIsTerminal ==
  \A k \in 1..Len(trace) :
    (trace[k].ev \in {"pre", "post"} /\ trace[k].x = "DENY") =>
      /\ ~CallsAfter(k)
      /\ current_tool_index = trace[k].i
      /\ RunDenied

\* ------------------------------------------------------------------- C3
\* C3: after the approval request for step i is resolved APPROVED, the
\* resume invokes the tool of step i once, evaluates the post gate of step i
\* once, and the pre gate of step i is never evaluated again.
C3_NoPreGateAfterApproval ==
  \A k \in 1..Len(trace) :
    trace[k].ev = "approved" =>
      /\ {j \in Positions("pre", trace[k].i) : j > k} = {}
      /\ Cardinality({j \in Positions("tool", trace[k].i) : j > k}) = 1
      /\ Cardinality({j \in Positions("post", trace[k].i) : j > k}) = 1

\* ------------------------------------------------------------------- C4
\* The approval at position k of the trace answers the suspension of the
\* step at the cursor, and the post gate of the resumed tool allowed.
ApprovedAndAllowed(k) ==
  /\ k > 1
  /\ k + 2 <= Len(trace)
  /\ trace[k].ev = "approved"
  /\ trace[k - 1].ev = "pre"
  /\ trace[k - 1].x = "REQUIRE_APPROVAL"
  /\ trace[k - 1].i = trace[k].i
  /\ trace[k + 1].ev = "tool"
  /\ trace[k + 2].ev = "post"
  /\ trace[k + 2].x \notin {"DENY", "RAISE"}

\* The latest run got past its input gate and stored a response to emit.
ResponseStored ==
  /\ scenario.generate_response
  /\ \A k \in 1..Len(trace) :
       trace[k].ev = "input" => trace[k].x \notin {"DENY", "RAISE"}

\* The calls made by the resume that starts at position k: those after k up
\* to the next human decision.
ResumeSegment(k) ==
  {j \in (k + 1)..Len(trace) :
     \A m \in (k + 1)..j : trace[m].ev \notin {"approved", "denied_by_human"}}

\* C4: a run suspended at step i and then approved, the post gate allowing,
\* resumes at exactly step i: the resume invokes the tools of steps i, i+1,
\* ... in that order, each once and each the tool the scenario names for
\* the step, evaluates no pre gate for a step up to i, and a response
\* stored at run start is still pending until it is emitted, which happens
\* last and with the cursor past the last step.
C4_ResumeAtSuspendedStep ==
  \A k \in 1..Len(trace) :
    ApprovedAndAllowed(k) =>
      LET i == trace[k].i
          S == ResumeSegment(k)
          T == {j \in S : trace[j].ev = "tool"}
          R == {j \in (k + 1)..Len(trace) : trace[j].ev = "response"}
      IN /\ \A j \in T :
              LET m == Cardinality({h \in T : h < j})
              IN /\ trace[j].i = i + m
                 /\ trace[j].x = remaining_tool_calls[i + m + 1]
         /\ \A j \in S : trace[j].ev = "pre" => trace[j].i > i
         /\ ResponseStored =>
              IF R = {}
                THEN /\ pending_response.kind = "set"
                     /\ pending_response.run = runs
                ELSE /\ R = {Len(trace)}
                     /\ LastEvent.i = Len(remaining_tool_calls)

\* A two-step run suspended at its first step, approved, and completed with
\* its response emitted.
C4_Witness ==
  /\ Len(scenario.tool_calls) = 2
  /\ \E k \in 1..Len(trace) : ApprovedAndAllowed(k) /\ trace[k].i = 0
  /\ LastEvent.ev = "response"
  /\ LastEvent.x = "ALLOW"
  /\ RunCompleted

\* ------------------------------------------------------------------- C5
\* C5: once an approval request is resolved REJECTED, the run is terminal
\* DENIED with the denial recorded for the step's tool, the cursor stays on
\* the step, and no call (tool, gate, response) follows the rejection.
C5_RejectedIsTerminal ==
  \A k \in 1..Len(trace) :
    trace[k].ev = "denied_by_human" =>
      /\ k = Len(trace)
      /\ current_tool_index = trace[k].i
      /\ RunDenied
      /\ LastResult = Result("Tool", trace[k].x, "DENY",
                             "Action denied by user")

\* A two-step run with a response pending, rejected at its first step.
C5_Witness ==
  /\ Len(trace) > 0
  /\ LastEvent.ev = "denied_by_human"
  /\ LastEvent.i = 0
  /\ Len(scenario.tool_calls) = 2
  /\ pending_response.kind = "set"

\* ------------------------------------------------------------------- C6
\* The run has one step and its pre gate required an approval.
SingleStepSuspension ==
  /\ Len(scenario.tool_calls) = 1
  /\ Len(trace) > 0
  /\ \E k \in 1..Len(trace) :
       /\ trace[k].ev = "pre"
       /\ trace[k].x = "REQUIRE_APPROVAL"
       /\ \A j \in 1..(k - 1) : trace[j].ev = "input"

\* The positions of the trace added by the current step.
NewEvents ==
  IF runs' = runs THEN (Len(trace) + 1)..Len(trace') ELSE 1..Len(trace')

\* C6: when a resume invokes the tool of an approved request, the latest
\* entry of the ledger is the APPROVED event for that tool, so that event
\* precedes the tool and its post gate; and a single-step run whose pre gate
\* required an approval is awaiting approval as long as its request is
\* outstanding, and is COMPLETED after the approval when the tool returned
\* and every gate evaluated in the run allowed.
C6_ApprovedLoggedBeforeTool ==
  /\ [][\A k \in NewEvents :
          trace'[k].ev = "approved" =>
            \A j \in (k + 1)..Len(trace') :
              (j <= k + 2 /\ trace'[j].ev \in {"tool", "post"}) =>
                /\ trace'[j].n > 0
                /\ audit_log'[trace'[j].n].decision = "APPROVED"
                /\ audit_log'[trace'[j].n].action = trace'[k].x]_vars
  /\ [](SingleStepSuspension =>
          /\ (/\ LastEvent.ev = "pre"
              /\ \A k \in 1..(Len(trace) - 1) : trace[k].ev = "input"
              /\ \E r \in pending_approvals :
                   r.resolution = "PENDING" /\ r.run = runs)
             => Suspended /\ execution_in_progress
          /\ (/\ \E k \in 1..Len(trace) :
                   trace[k].ev = "approved" /\ Positions("post", 0) # {}
              /\ \A k \in 1..Len(trace) : trace[k].x \notin {"DENY", "RAISE"})
             => RunCompleted /\ current_tool_index = 1)

\* A single-step run that was suspended, approved and is completed.
C6_Witness ==
  /\ SingleStepSuspension
  /\ \E k \in 1..Len(trace) : trace[k].ev = "approved"
  /\ LastEvent.ev = "post"
  /\ LastEvent.x = "ALLOW"
  /\ RunCompleted
  /\ audit_log[Len(audit_log)].decision = "APPROVED"

\* ------------------------------------------------------------------- C7
\* The continuation refers to an approval request that is not resolved yet.
ContinuationOutstanding ==
  /\ execution_state.kind = "set"
  /\ Outstanding(execution_state.action_id)

\* The request a resume call would address has been resolved before: the
\* one of the continuation, or, the continuation consumed, an earlier one.
AlreadyResolved ==
  /\ ~ContinuationOutstanding
  /\ \E r \in pending_approvals :
       /\ r.resolution # "PENDING"
       /\ execution_state.kind = "set" => r.action_id = execution_state.action_id

\* The resume call changed nothing but what it reports to its caller.
OnlyOutcomeChanged ==
  UNCHANGED <<execution_in_progress, pending_approval, execution_results,
              execution_state, remaining_tool_calls, pending_response,
              current_tool_index, active_gate, enforcer, audit_log,
              pending_approvals, next_action_id, runs, scenario, trace>>

\* Human decisions in a ledger.
HumanDecisions(log) ==
  {k \in 1..Len(log) : log[k].decision \in {"APPROVED", "DENIED_BY_HUMAN"}}

\* C7: the first resolution of an approval request resolves that request
\* and appends one human decision to the ledger; a resume call for a
\* request that is already resolved raises to its caller and changes no
\* state.
C7_SecondResolutionRejected ==
  [][ResumeCall =>
       /\ ContinuationOutstanding =>
            /\ \A r \in pending_approvals' :
                 r.action_id = execution_state.action_id =>
                   r.resolution # "PENDING"
            /\ Cardinality(HumanDecisions(audit_log')) =
                 Cardinality(HumanDecisions(audit_log)) + 1
       /\ AlreadyResolved => outcome' \in Exceptions /\ OnlyOutcomeChanged]_vars

\* ------------------------------------------------------------------- C8
\* C8: a resume call made while no approval request is outstanding (never
\* suspended, or the continuation consumed) raises to its caller and is a
\* no-op: no tool, no result, no audit event, cursor and run state as before.
C8_ResumeWithoutRequestIsError ==
  [][(ResumeCall /\ ~ContinuationOutstanding) =>
       (outcome' \in Exceptions /\ OnlyOutcomeChanged)]_vars

\* ------------------------------------------------------------------- C9
\* C9: a gate decision outside the Decision enum ends the run as a DENY:
\* the evaluation is the last call made (no tool is invoked after it), the
\* run is no longer in progress and its last result is a denial.
C9_UnknownDecisionIsDeny ==
  \A k \in 1..Len(trace) :
    (trace[k].ev \in {"input", "pre", "post", "response"}
       /\ trace[k].x = "UNKNOWN") =>
      /\ k = Len(trace)
      /\ ~execution_in_progress
      /\ Len(execution_results) > 0
      /\ LastResult.decision \in {"deny", "DENY"}

\* ------------------------------------------------------------------ C10
\* C10: a gate evaluation in which the gateway itself failed is the last
\* call of the run, which is then not in progress and whose last result is
\* a DENY with reason GATE_UNAVAILABLE.
C10_GateFailureFailsClosed ==
  \A k \in 1..Len(trace) :
    trace[k].x = "RAISE" =>
      /\ k = Len(trace)
      /\ ~execution_in_progress
      /\ Len(execution_results) > 0
      /\ LastResult.decision \in {"deny", "DENY"}
      /\ LastResult.detail = "GATE_UNAVAILABLE"

\* ------------------------------------------------------------------ C11
\* The call at position k of the trace leads to the invocation of a tool
\* that is not in the TOOLS registry: the pre gate of such a step let the
\* step through, or the approval of such a step was given.
LeadsToUnregisteredTool(k) ==
  \/ /\ trace[k].ev = "pre"
     /\ trace[k].x \notin {"DENY", "RAISE", "REQUIRE_APPROVAL"}
     /\ remaining_tool_calls[trace[k].i + 1] \notin TOOLS
  \/ /\ trace[k].ev = "approved"
     /\ trace[k].x \notin TOOLS

\* C11: when the tool of a step cannot be invoked because it is not
\* registered, on the direct path or on the resume path, the handler returns
\* normally, the last result is a TOOL_ERROR for that step, not a denial,
\* and nothing is called afterwards.
C11_ToolErrorRecorded ==
  \A k \in 1..Len(trace) :
    LeadsToUnregisteredTool(k) =>
      /\ k = Len(trace)
      /\ outcome \notin Exceptions
      /\ Len(execution_results) > 0
      /\ LastResult.step = "Tool"
      /\ LastResult.decision = "TOOL_ERROR"

\* ------------------------------------------------------------------ C12
\* Scenario configurations with no step and no response requested.
EmptyConfigs ==
  {c \in ScenarioConfigs : c.tool_calls = <<>> /\ ~c.generate_response}

\* run_demo_scenario is called with scenario_config.
RunScenario(scenario_config) ==
  \E s \in RunDemoScenario(Session, scenario_config) : Install(s)

\* C12: a run started with no step and no response requested is rejected
\* as InvalidConfiguration: no gate is evaluated and the run state of the
\* session is left as it was.
C12_EmptyRunRejected ==
  [][\A c \in EmptyConfigs :
       RunScenario(c) =>
         /\ outcome' = "InvalidConfiguration"
         /\ trace' = <<>>
         /\ UNCHANGED <<execution_in_progress, pending_approval,
                        execution_results, execution_state,
                        remaining_tool_calls, pending_response,
                        current_tool_index, active_gate>>]_vars

\* ------------------------------------------------------------------ C13
\* The latest run got past its input gate and stored its steps.
StepsStored ==
  /\ runs > 0
  /\ \A k \in 1..Len(trace) :
       trace[k].ev = "input" => trace[k].x \notin {"DENY", "RAISE"}

\* The results recorded for tool steps, in order.
ToolResults == SelectSeq(execution_results, LAMBDA r : r.step = "Tool")

\* C13: the results of the tool steps are one per step, in step order: the
\* j-th of them is for the tool of the j-th step, there are no more of them
\* than steps, and every step the cursor has passed has its result.
C13_StepRecordedOnce ==
  StepsStored =>
    /\ Len(ToolResults) <= Len(remaining_tool_calls)
    /\ \A j \in 1..Len(ToolResults) :
         ToolResults[j].tool = remaining_tool_calls[j]
    /\ Len(ToolResults) >= current_tool_index

DeniedSteps ==
  {j \in 1..Len(execution_results) :
     /\ execution_results[j].step = "Tool"
     /\ execution_results[j].decision \in {"deny", "DENY"}}

\* Positions of the results recorded for the response gate.
ResponseResults ==
  {j \in 1..Len(execution_results) :
     execution_results[j].step = "Response Output"}

C15_InputDenyIsTerminal ==
  \A k \in 1..Len(trace) :
    (trace[k].ev = "input" /\ trace[k].x = "DENY") =>
      /\ Len(trace) = 1
      /\ RunDenied
      /\ execution_results =
           <<Result("User Input", "", "DENY", "denial_reason")>>

\* ------------------------------------------------------------------ C16
\* C16: when the response gate returns DENY, the denial is recorded as a
\* result with its reason, and the run is then COMPLETED: not in progress
\* and not DENIED.
C16_DeniedResponseCompletes ==
  \A k \in 1..Len(trace) :
    (trace[k].ev = "response" /\ trace[k].x = "DENY") =>
      /\ \E j \in 1..Len(execution_results) :
           execution_results[j] =
             Result("Response Output", "", "deny", "denial_reason")
      /\ k = Len(trace) =>
           /\ RunCompleted
           /\ LastResult.step = "Response Output"
           /\ pending_response.kind # "set"

\* A two-step run whose steps were allowed and whose response was denied.
C16_Witness ==
  /\ Len(trace) > 0
  /\ LastEvent.ev = "response"
  /\ LastEvent.x = "DENY"
  /\ current_tool_index = 2
  /\ Len(execution_results) = 3
  /\ RunCompleted

\* ------------------------------------------------------------------ C17
\* The latest run is in a terminal state.
Terminal == RunCompleted \/ RunDenied

\* C17: once the latest run is COMPLETED or DENIED, no operation other than
\* the start of a new run evaluates a gate, invokes a tool, appends a
\* result or moves the cursor.
C17_TerminalIsFinal ==
  [][(Terminal /\ runs' = runs) =>
       UNCHANGED <<trace, execution_results, current_tool_index>>]_vars

\* ------------------------------------------------------------------ C18
\* The approval requests not resolved yet.
OutstandingRequests == {r \in pending_approvals : r.resolution = "PENDING"}

\* C18: no two outstanding approval requests were created by the same run.
C18_OneOutstandingPerRun ==
  \A r1, r2 \in OutstandingRequests : r1.run = r2.run => r1 = r2

\* A run suspended on its second request, its first one approved.
C18_Witness ==
  /\ Suspended
  /\ \E r1 \in pending_approvals, r2 \in OutstandingRequests :
       /\ r1.resolution = "APPROVED"
       /\ r1.run = r2.run
       /\ r2.action_id = execution_state.action_id
  /\ current_tool_index = 1

\* ------------------------------------------------------------------ C19
\* C19: the state kept for a run is that of the latest run only: the
\* outstanding approval requests and the continuation are of the latest
\* run, the stored steps, if any, are its steps, and a stored response is
\* its response.
C19_OneRunLive ==
  /\ \A r \in OutstandingRequests : r.run = runs
  /\ execution_state.kind = "set" =>
       \A r \in pending_approvals :
         r.action_id = execution_state.action_id => r.run = runs
  /\ remaining_tool_calls \in {scenario.tool_calls, <<>>}
  /\ pending_response.kind = "set" => pending_response.run = runs

\* ------------------------------------------------------------------ C20
\* C20: the audit ledger is append-only: every step leaves the ledger it
\* found as a prefix of the ledger it leaves.
C20_LedgerAppendOnly ==
  [][/\ Len(audit_log) <= Len(audit_log')
     /\ SubSeq(audit_log', 1, Len(audit_log)) = audit_log]_vars

\* ------------------------------------------------------------------ C21
\* C21: a request resolved on the approval queue page was resolved by
\* exactly one human action, its record is still in the list the page works
\* on, carrying that resolution, and it is not pending again.
C21_ResolvedOnceAndKept ==
  \A k \in 1..Len(resolutions) :
    LET trace_id == resolutions[k].trace_id
    IN /\ \A j \in 1..Len(resolutions) :
            resolutions[j].trace_id = trace_id => j = k
       /\ \E j \in 1..Len(PagePendingApprovals) :
            PagePendingApprovals[j].trace_id = trace_id
       /\ \A j \in 1..Len(PagePendingApprovals) :
            PagePendingApprovals[j].trace_id = trace_id =>
              PagePendingApprovals[j].resolution = resolutions[k].resolution

\* ------------------------------------------------------------------ C22
\* The steps (cursor values) for which the current step made a call.
StepsTouched == {trace'[k].i : k \in NewEvents}

\* The results for tool steps appended by the current step.
NewToolResults ==
  {k \in (Len(execution_results) + 1)..Len(execution_results') :
     execution_results'[k].step = "Tool"}

\* C22: in whatever order resolution attempts (Approve, Deny, direct resume
\* calls) are made, one attempt resolves at most one request: it adds at most
\* one human decision to the trace and to the ledger, invokes the tool of the
\* approved step at most once, and records at most one result for each step
\* it works on; an attempt made while the continuation's request is not
\* outstanding any more invokes no tool, logs nothing and records nothing.
C22_OneResolutionTakesEffect ==
  [][(ApproveClick \/ DenyClick \/ ResumeCall) =>
       /\ Cardinality({k \in NewEvents :
                         trace'[k].ev \in {"approved", "denied_by_human"}})
            <= 1
       /\ Cardinality(HumanDecisions(audit_log'))
            <= Cardinality(HumanDecisions(audit_log)) + 1
       /\ \A k \in NewEvents :
            trace'[k].ev = "approved" =>
              Cardinality({j \in NewEvents :
                             /\ trace'[j].ev = "tool"
                             /\ trace'[j].i = trace'[k].i}) <= 1
       /\ Cardinality(NewToolResults) <= Cardinality(StepsTouched)
       /\ ~ContinuationOutstanding =>
            /\ NewEvents = {}
            /\ audit_log' = audit_log
            /\ execution_results' = execution_results]_vars

\* ------------------------------------------------------------------ C23
\* C23: when a resolution attempt rejects a pending request with a comment
\* given by the human, the result recorded last, for the denied step, has
\* that comment as its reason.
C23_DenialReasonIsComment ==
  [][\A r \in pending_approvals' \ pending_approvals :
       (r.resolution = "REJECTED" /\ r.comment \in Comments \ {""}) =>
         /\ Len(execution_results') = Len(execution_results) + 1
         /\ execution_results'[Len(execution_results')].step = "Tool"
         /\ execution_results'[Len(execution_results')].detail = r.comment]_vars

\* ------------------------------------------------------------------ C24
\* No gate evaluated since the latest run started denied, required an
\* approval or failed.
NoGateObjected ==
  \A k \in 1..Len(trace) :
    trace[k].ev \in {"input", "pre", "post", "response"} =>
      trace[k].x \notin {"DENY", "REQUIRE_APPROVAL", "RAISE"}

\* The scenario of the latest run has the single step sharepoint_read.
SingleSharepointRead == scenario.tool_calls = <<"sharepoint_read">>

\* The run is COMPLETED after one pre gate, one tool invocation and one post
\* gate, all for the first step, with one step result, decision ALLOW.
CompletedInOnePass ==
  /\ RunCompleted
  /\ Cardinality(Positions("pre", 0)) = 1
  /\ Cardinality(Positions("tool", 0)) = 1
  /\ Cardinality(Positions("post", 0)) = 1
  /\ \A k \in 1..Len(trace) :
       trace[k].ev \in {"pre", "tool", "post"} => trace[k].i = 0
  /\ \E k \in Positions("pre", 0) : \E j \in Positions("tool", 0) :
       \E m \in Positions("post", 0) :
         k < j /\ j < m /\ trace[j].x = "sharepoint_read"
  /\ Len(ToolResults) = 1
  /\ ToolResults[1].tool = "sharepoint_read"
  /\ ToolResults[1].decision \in {"allow", "ALLOW"}
  /\ current_tool_index = 1

\* C24: a run started with the single step sharepoint_read, in which no gate
\* denies, requires an approval or fails, ends COMPLETED with exactly one
\* pre-gate evaluation, one tool invocation, one post-gate evaluation, in
\* that order, and one step result with decision ALLOW.
C24_SingleStepAllowedRun ==
  [][(runs' = runs + 1 /\ SingleSharepointRead' /\ NoGateObjected') =>
       CompletedInOnePass']_vars

\* A completed run of the single step sharepoint_read with its response
\* emitted.
C24_Witness ==
  /\ runs > 0
  /\ SingleSharepointRead
  /\ NoGateObjected
  /\ CompletedInOnePass
  /\ LastEvent.ev = "response"

\* ------------------------------------------------------------------ C25
\* The current step repeats the latest call: parse_policy_rules on the same
\* document, with the same strategy and the same answer of the service; the
\* document's text has not changed in between.
SameExtractionAgain ==
  /\ last_call.op = "parse_policy_rules"
  /\ now' = now + 1
  /\ last_call'.op = "parse_policy_rules"
  /\ last_call'.document_id = last_call.document_id
  /\ last_call'.use_openai = last_call.use_openai
  /\ last_call'.service = last_call.service

\* C25: running the same extraction a second time on a document leaves the
\* size of the extracted-rule collection as the first run left it.
C25_ExtractionIdempotent ==
  [][SameExtractionAgain =>
       Len(extracted_rules') = Len(extracted_rules)]_vars

\* ------------------------------------------------------------------ C26
\* C26: no two rules of the extracted-rule collection have the same source
\* document and the same text.
C26_NoDuplicateRules ==
  \A j, k \in 1..Len(extracted_rules) :
    (/\ extracted_rules[j].source_document = extracted_rules[k].source_document
     /\ extracted_rules[j].text = extracted_rules[k].text) => j = k

\* ------------------------------------------------------------------ C27
\* The current step is a parse_policy_rules call on a document that has
\* text.
ExtractionStep ==
  /\ now' = now + 1
  /\ last_call'.op = "parse_policy_rules"
  /\ last_call'.method # "none"

\* The rules of a service answer that have a rule_text.
UsableRules(service) ==
  {k \in 1..Len(service.rules) : service.rules[k].rule_text # <<>>}

\* The rules the current step appended to the collection.
AppendedRules ==
  {extracted_rules'[k] :
     k \in (Len(extracted_rules) + 1)..Len(extracted_rules')}

\* C27: an extraction uses the keyword fallback exactly when the primary
\* strategy is disabled or the service gave no usable rule (no client, an
\* error, an empty answer, only rules without text); the call returns then,
\* and every rule it returns or stores is marked keyword_matching; otherwise
\* it returns the usable rules of the service, marked openai_gpt4o, and no
\* keyword rule is made.
C27_FallbackExactlyWhenPrimaryFails ==
  [][ExtractionStep =>
       LET c == last_call'
           returned == {c.returned[k] : k \in 1..Len(c.returned)}
           primary_failed ==
             ~c.use_openai \/ c.service.kind # "rules"
               \/ UsableRules(c.service) = {}
       IN /\ c.method \in {"primary", "fallback"}
          /\ c.method = "fallback" <=> primary_failed
          /\ c.method = "fallback" =>
               \A rule \in returned \cup AppendedRules :
                 rule.extraction_method = "keyword_matching"
          /\ c.method = "primary" =>
               /\ Len(c.returned) = Cardinality(UsableRules(c.service))
               /\ \A rule \in returned \cup AppendedRules :
                    rule.extraction_method = "openai_gpt4o"
               /\ AppendedRules \subseteq returned]_vars

\* The service erred and the fallback found a rule.
C27_Witness ==
  /\ last_call.op = "parse_policy_rules"
  /\ last_call.use_openai
  /\ last_call.service.kind = "error"
  /\ last_call.method = "fallback"
  /\ Len(last_call.returned) = 1
  /\ Len(extracted_rules) = 1

\* ------------------------------------------------------------------ C28
\* The lines of Lines that hold one of the keywords retention, retain,
\* policy, compliance, regulation, in whatever case.
KeywordLines == {DemoLine, ShoutLine}

\* The text of the document the latest call was made for.
TextOf(document_id) ==
  LET k == CHOOSE k \in 1..Len(documents) : documents[k].id = document_id
  IN documents[k].extracted_text.text

\* The lines of a text that hold a keyword, in order.
MatchingLines(text) == SelectSeq(text, LAMBDA line : line \in KeywordLines)

\* C28: the keyword fallback returns one rule for each line of the text that
\* holds a keyword and none for the other lines, in the order of the lines;
\* each rule has the line's text without surrounding white space, rule_type
\* other, confidence 0.5, the fallback extraction method and the document as
\* its source; so a text whose only line with a keyword is "Data must be
\* retained for 5 years per policy" yields exactly one rule.
C28_FallbackOneRulePerKeywordLine ==
  (last_call.op = "parse_policy_rules" /\ last_call.method = "fallback") =>
    LET rules == last_call.returned
        lines == MatchingLines(TextOf(last_call.document_id))
    IN /\ Len(rules) = Len(lines)
       /\ \A k \in 1..Len(rules) :
            /\ rules[k].text = Strip(lines[k])
            /\ rules[k].text \in
                 {DemoLine, <<"RETENTION", " schedule">>}
            /\ rules[k].rule_type = "other"
            /\ rules[k].confidence = "0.5"
            /\ rules[k].extraction_method = "keyword_matching"
            /\ rules[k].source_document = last_call.document_id
       /\ lines = <<DemoLine>> => Len(rules) = 1

\* The fallback ran on a two-line text whose only line with a keyword is
\* the retention sentence, the service being unavailable.
C28_Witness ==
  /\ last_call.op = "parse_policy_rules"
  /\ last_call.method = "fallback"
  /\ last_call.service.kind = "no_client"
  /\ TextOf(last_call.document_id) = <<PlainLine, DemoLine>>
  /\ Len(last_call.returned) = 1
  /\ last_call.returned[1].text = DemoLine

\* ------------------------------------------------------------------ C29
\* The fields a resolution may overwrite.
ResolutionFields == {"resolution", "resolution_notes", "resolved_date"}

\* Record c after the step is record b with at most the resolution fields
\* changed.
SameButResolution(b, c) ==
  /\ DOMAIN c = DOMAIN b
  /\ \A f \in DOMAIN b \ ResolutionFields : c[f] = b[f]

ConflictsDetected ==
  LET conflicts ==
        DetectConflicts(Manager, CHOOSE h \in HardOntologyRules : TRUE, now)
  IN {conflicts[k] : k \in 1..Len(conflicts)}

\* The rules with a conflict that has been resolved in favour of the soft
\* rule.
ResolvedForSoftRule ==
  {c.soft_ontology_rule : c \in
     {c \in ConflictsDetected :
        \E k \in 1..Len(conflict_resolutions) :
          /\ conflict_resolutions[k].id = c.id
          /\ conflict_resolutions[k].resolution = "use_soft_ontology"}}

ActiveRules ==
  LET active == GetActiveRules(Manager)
  IN {active[k] : k \in 1..Len(active)}

\* The rules with a detected conflict whose id has a resolution record with
\* an outcome other than "use_soft_ontology".
ResolvedAgainst ==
  {c.soft_ontology_rule : c \in
     {c \in ConflictsDetected :
        \E k \in 1..Len(conflict_resolutions) :
          /\ conflict_resolutions[k].id = c.id
          /\ conflict_resolutions[k].resolution # "use_soft_ontology"}}

\* C31: a rule without a conflict resolved against it is active, and when
\* resolve_conflict records "use_hard_ontology" for the id of a conflict
\* that the detect_conflicts call just before reported, the rule of that
\* conflict is no longer returned by get_active_rules.
C31_ExcludedIffResolvedAgainst ==
  /\ [](\A k \in 1..Len(extracted_rules) :
          extracted_rules[k] \notin ResolvedAgainst =>
            extracted_rules[k] \in ActiveRules)
  /\ [][(/\ last_call.op = "detect_conflicts"
         /\ now' = now + 1
         /\ last_call'.op = "resolve_conflict"
         /\ \E k \in 1..Len(conflict_resolutions') :
              /\ conflict_resolutions'[k].id = last_call'.document_id[1]
              /\ conflict_resolutions'[k].resolution = "use_hard_ontology") =>
          \A j \in 1..Len(last_call.returned) :
            last_call.returned[j].id = last_call'.document_id[1] =>
              last_call.returned[j].soft_ontology_rule \notin ActiveRules']_vars

\* ------------------------------------------------------------------ C32
\* The extracted rules whose text speaks of years or of retention, in the
\* order of the collection.
RetentionRules ==
  SelectSeq(extracted_rules,
            LAMBDA rule : \/ InLine("year", LineLower(rule.text))
                          \/ InLine("retention", LineLower(rule.text)))

Allowing == {"ALLOW", "ALLOW_WITH_CONTROLS"}

\* The tool invocation at position k of the trace follows a pre gate that
\* allowed the step, or the approval of a pre gate that required one.
ToolWasCleared(k) ==
  /\ k > 1
  /\ trace[k - 1].i = trace[k].i
  /\ \/ trace[k - 1].ev = "pre" /\ trace[k - 1].x \in Allowing
     \/ /\ k > 2
        /\ trace[k - 1].ev = "approved"
        /\ trace[k - 2].ev = "pre"
        /\ trace[k - 2].x = "REQUIRE_APPROVAL"
        /\ trace[k - 2].i = trace[k].i

\* C33: in a run whose gates answered with decisions of the enum, every
\* tool invocation follows a pre gate that answered ALLOW or
\* ALLOW_WITH_CONTROLS or a REQUIRE_APPROVAL that was approved, and every
\* step behind the cursor had a post gate evaluation, the last of which
\* answered ALLOW or ALLOW_WITH_CONTROLS.
C33_AdvanceOnlyWhenBothGatesAllow ==
  (\A k \in 1..Len(trace) : trace[k].x # "UNKNOWN") =>
    /\ \A k \in 1..Len(trace) : trace[k].ev = "tool" => ToolWasCleared(k)
    /\ \A i \in 0..(current_tool_index - 1) :
         /\ Positions("post", i) # {}
         /\ \A k \in Positions("post", i) :
              (\A j \in Positions("post", i) : j <= k) =>
                trace[k].x \in Allowing

\* ------------------------------------------------------------------ C34
\* Positions of the trace at which the response gate was evaluated.
ResponseEvaluations == {k \in 1..Len(trace) : trace[k].ev = "response"}

\* A tool step of the run is recorded as denied.
SomeStepDenied ==
  \E k \in 1..Len(execution_results) :
    /\ execution_results[k].step = "Tool"
    /\ execution_results[k].decision \in {"deny", "DENY"}

\* C34: the response gate is evaluated at most once in a run, with the
\* cursor at the number of steps of the scenario, in a run none of whose
\* tool steps is recorded as denied and after every approval required
\* before it was given; once it has answered, no response is pending.
C34_ResponseOnceAfterAllSteps ==
  /\ Cardinality(ResponseEvaluations) <= 1
  /\ \A k \in ResponseEvaluations :
       /\ trace[k].i = Len(scenario.tool_calls)
       /\ ~SomeStepDenied
       /\ \A j \in 1..(k - 1) :
            (trace[j].ev = "pre" /\ trace[j].x = "REQUIRE_APPROVAL") =>
              (j + 1 < k /\ trace[j + 1].ev = "approved")
       /\ trace[k].x # "RAISE" => pending_response.kind # "set"

\* ------------------------------------------------------------------ C35
\* C35: building an evidence pack leaves the ledger, the execution
\* results, the approval queue and the run state (in progress, pending
\* approval, continuation, remaining steps, pending response, cursor) as
\* they were, and the pack's gate_sequence has one entry for each ledger
\* entry of the pack, in the same order, with that entry's gate, timestamp,
\* decision and action; the ledger entries of the pack are those of the
\* ledger inside the time range asked for, in ledger order.
C35_EvidencePackReadOnly ==
  [][ExportEvidencePack =>
       LET pack == evidence'
           log == pack.session_audit_log
       IN /\ UNCHANGED <<audit_log, execution_results, pending_approvals,
                         execution_in_progress, pending_approval,
                         execution_state, remaining_tool_calls,
                         pending_response, current_tool_index, active_gate>>
          /\ Len(pack.gate_sequence) = Len(log)
          /\ \A k \in 1..Len(log) :
               /\ pack.gate_sequence[k].gate = log[k].gate
               /\ pack.gate_sequence[k].timestamp = log[k].timestamp
               /\ pack.gate_sequence[k].decision = log[k].decision
               /\ pack.gate_sequence[k].action = log[k].action
               /\ log[k].timestamp \in 1..Len(audit_log)
               /\ log[k].decision = audit_log[log[k].timestamp].decision
               /\ k > 1 => log[k - 1].timestamp < log[k].timestamp
          /\ pack.execution_results = execution_results
          /\ pack.pending_approvals = pending_approvals]_vars

\* A pack was built for the second and third ledger entry while the run is
\* suspended on its second approval request.
C35_Witness ==
  /\ evidence.kind = "set"
  /\ Suspended
  /\ Len(audit_log) = 3
  /\ evidence.time_range.kind = "set"
  /\ Len(evidence.gate_sequence) = 2
  /\ evidence.gate_sequence[1].timestamp = 2
  /\ evidence.gate_sequence[1].decision = "APPROVED"
  /\ evidence.gate_sequence[2].decision = "REQUIRE_APPROVAL"
  /\ evidence.pending_approvals = pending_approvals

\* ------------------------------------------------------------------ C36
\* C36: in a run started without a requested response the response gate
\* is not evaluated, whatever runs came before it in the session.
C36_NoResponseUnlessRequested ==
  (runs > 0 /\ ~scenario.generate_response) => ResponseEvaluations = {}

\* ------------------------------------------------------------------ C37
\* C37: whenever the session shows an approval as pending, the request
\* with its action id is in the approval queue of the session's enforcer
\* and is not resolved.
C37_PendingApprovalIsOutstanding ==
  pending_approval.kind = "set" => Outstanding(pending_approval.action_id)

\* ------------------------------------------------------------------ C38
\* C38: when every approval shown is answered in the end, a run that was
\* started ends: it is no longer in progress and no approval is pending;
\* and the run is suspended at most once on the step at the cursor, so
\* every suspension is on a later step than the one before.
C38_RunTerminates ==
  /\ [](\A j, k \in Positions("pre", current_tool_index) :
          (trace[j].x = "REQUIRE_APPROVAL" /\ trace[k].x = "REQUIRE_APPROVAL")
            => j = k)
  /\ (runs > 0) ~> (~execution_in_progress /\ pending_approval.kind # "set")

\* ------------------------------------------------------------------ C39
\* C39: the ids of the rules in the extracted-rule collection are pairwise
\* distinct.
C39_RuleIdsDistinct ==
  \A j, k \in 1..Len(extracted_rules) :
    extracted_rules[j].id = extracted_rules[k].id => j = k

\* ------------------------------------------------------------------ C40
\* The ids of the documents in the store.
DocumentIds == {documents[k].id : k \in 1..Len(documents)}

\* C40: every rule of the extracted-rule collection, and so every active
\* rule, names a source document that is in the document store.
C40_RulesHaveTheirDocument ==
  /\ \A k \in 1..Len(extracted_rules) :
       extracted_rules[k].source_document \in DocumentIds
  /\ \A rule \in ActiveRules : rule.source_document \in DocumentIds

====
